---- MODULE Spec2Model ----
(***************************************************************************)
(* Route weather planner (route-weather-planner/app.py).                   *)
(*                                                                         *)
(* The model follows get_route_weather and its helpers.  A request is a    *)
(* sequential process whose position is pc[r]; every call to an external   *)
(* provider (geocoder, directions, reverse geocoder, weather backend) is   *)
(* answered by the environment, whose answer is a parameter of the action. *)
(* All the variables of get_route_weather are locals of one invocation,    *)
(* so every variable is a function of the request.                         *)
(*                                                                         *)
(* Encoding of Python values:                                              *)
(*   None (postal code, temperature)  the string "None"                    *)
(*   None (lat / lon)                 NoneCoord                            *)
(*   None (weather dict)              NoWeather                            *)
(*   float distance a/b               the record [num |-> a, den |-> b]    *)
(*   interval_distance * 1609.34      compared after scaling by 100        *)
(*                                                                         *)
(* Left out: logging, seen_zips (only logged), the preferences (they only  *)
(* shape the arguments of gmaps.directions) and the alternatives of the    *)
(* directions result (only directions_result[0] is read).  In the history  *)
(* calls, "geocode" stands for a call of get_coordinates_and_zip (its      *)
(* Nominatim backup included) and "reverse_geocode" for one of             *)
(* get_zip_code (either provider).                                         *)
(***************************************************************************)
EXTENDS Integers, Sequences, FiniteSets, TLC

(***************************************************************************)
(* Bounds of the model.                                                    *)
(***************************************************************************)
MaxAddresses == 3      \* a request carries 0..MaxAddresses addresses
MaxLegs == 2           \* legs of a route given to the sampler
MaxSteps == 2          \* steps of a route given to the sampler (all legs)
MaxPath == 3           \* vertices of a decoded step polyline
MaxRouteSteps == 2     \* steps of a route the directions provider answers with
MaxPoints == 4         \* sample points of a route handled by a request

Requests == {1, 2}
Zips == {"Z1", "Z2"}
StepDistances == {1000, 2000, 4000}    \* metres, of the steps given to the sampler
RouteDistances == {1000}               \* metres, of the steps of a request's route
LongRouteDistances == {1000, 2000}     \* the same, steps longer than a mile included
Intervals == {0, 1, 100, 101}          \* miles

\* 1609.34 metres per mile, times 100
METERS_PER_MILE_X100 == 160934
MIN_INTERVAL == 1
MAX_INTERVAL == 100
MIN_ADDRESSES == 2

NoneCoord == 0 - 1
NoWeather == [none |-> TRUE]
SENTINEL == "Weather service unavailable"

(***************************************************************************)
(* Answers of the external providers.                                      *)
(***************************************************************************)
\* gmaps.geocode / gmaps.reverse_geocode: a result carrying a postal code,
\* a result without one, an empty result list, or an exception
PrimaryAnswers == Zips \cup {"no_postal", "no_result", "exception"}
\* geolocator.reverse: a postcode, nothing usable, or an exception
SecondaryAnswers == Zips \cup {"no_result", "exception"}
\* requests.get(API_URL/weather/zip): a JSON object, or an HTTP error or a
\* timeout (requests.RequestException)
WeatherBodies ==
    {[temperatureC |-> "t", temperatureF |-> "t"],
     [temperatureC |-> "None", temperatureF |-> "t"],
     [temperatureC |-> "None", temperatureF |-> "None"]}
WeatherAnswers == {[kind |-> "ok", temperatureC |-> b.temperatureC,
                    temperatureF |-> b.temperatureF] : b \in WeatherBodies}
                  \cup {[kind |-> "http_error"]}

(***************************************************************************)
(* get_coordinates_and_zip (lines 32-62).                                  *)
(***************************************************************************)
AddressNames == <<"A1", "A2", "A3", "A4", "A5">>
AddrNo(address) == CHOOSE i \in 1..Len(AddressNames) : AddressNames[i] = address
AddrLat(address) == 100 + AddrNo(address)
AddrLon(address) == 200 + AddrNo(address)

\* get_coordinates_and_zip taking an address the geocoder did not find for resolved
get_coordinates_and_zip_unchecked(address, primary, secondary) ==
    [lat |-> AddrLat(address), lon |-> AddrLon(address),
     result |-> IF primary \in Zips THEN primary
                ELSE IF secondary \in Zips THEN secondary ELSE "None"]

\* get_coordinates_and_zip letting an exception of the backup provider reach
\* the handler of line 61
get_coordinates_and_zip_backup_raising(address, primary, secondary) ==
    IF primary = "no_result"
    THEN [lat |-> NoneCoord, lon |-> NoneCoord,
          result |-> <<"Could not find location for address: ", address>>]
    ELSE IF primary = "exception" \/ (primary = "no_postal" /\ secondary = "exception")
    THEN [lat |-> NoneCoord, lon |-> NoneCoord,
          result |-> <<"Error finding location for address ", address>>]
    ELSE [lat |-> AddrLat(address), lon |-> AddrLon(address),
          result |-> IF primary \in Zips THEN primary
                     ELSE IF secondary \in Zips THEN secondary ELSE "None"]

get_coordinates_and_zip(address, primary, secondary) ==
    IF primary = "no_result"
    THEN [lat |-> NoneCoord, lon |-> NoneCoord,
          result |-> <<"Could not find location for address: ", address>>]
    ELSE IF primary = "exception"
    THEN [lat |-> NoneCoord, lon |-> NoneCoord,
          result |-> <<"Error finding location for address ", address>>]
    ELSE IF primary \in Zips
    THEN [lat |-> AddrLat(address), lon |-> AddrLon(address),
          result |-> primary]
    ELSE [lat |-> AddrLat(address), lon |-> AddrLon(address),
          result |-> IF secondary \in Zips THEN secondary ELSE "None"]

(***************************************************************************)
(* get_zip_code (lines 64-89).  An exception of the primary provider is    *)
(* caught by the function's only handler, which returns None.              *)
(***************************************************************************)
get_zip_code(primary, secondary) ==
    IF primary = "exception" THEN "None"
    ELSE IF primary \in Zips THEN primary
    ELSE IF secondary \in Zips THEN secondary
    ELSE "None"

(***************************************************************************)
(* get_weather_data(lat, lon) (lines 91-123) with the postal code          *)
(* get_zip_code returned and the answer of the weather backend.            *)
(***************************************************************************)
get_weather_data(zip_code, answer) ==
    IF zip_code = "None" THEN NoWeather
    ELSE IF answer.kind = "ok"
    THEN [zip_code |-> zip_code, temperatureC |-> answer.temperatureC,
          temperatureF |-> answer.temperatureF, summary |-> "ok",
          country |-> "US"]
    ELSE [zip_code |-> zip_code, temperatureC |-> "None",
          temperatureF |-> "None", summary |-> SENTINEL, country |-> "US"]

\* the weather backend is called unless the postal lookup failed
WeatherCalled(zip_code) == zip_code # "None"


(***************************************************************************)
(* calculate_route_points (lines 125-180).                                 *)
(*                                                                         *)
(* A route is [legs |-> <<leg, ...>>], a leg [steps |-> <<step, ...>>], a  *)
(* step [path |-> the decoded polyline, distance |-> metres].  Python's    *)
(* path[0] .. path[len-1] are path[1] .. path[len] here.                   *)
(***************************************************************************)
\* step_distance > interval_meters (line 145)
LongerThanInterval(step_distance, interval_distance) ==
    step_distance * 100 > interval_distance * METERS_PER_MILE_X100

\* math.ceil(step_distance / interval_meters) (line 147)
NumIntervals(step_distance, interval_distance) ==
    LET im == interval_distance * METERS_PER_MILE_X100
    IN  (step_distance * 100 + im - 1) \div im

\* PathIndex scaling the fraction by len(path) instead of len(path) - 1
PathIndex_by_len(i, num_intervals, len) ==
    IF i = 0 THEN 1
    ELSE IF i = num_intervals THEN len
    ELSE (i * len) \div num_intervals + 1

\* the vertex chosen for fraction i / num_intervals (lines 155-162)
PathIndex(i, num_intervals, len) ==
    IF i = 0 THEN 1
    ELSE IF i = num_intervals THEN len
    ELSE (i * (len - 1)) \div num_intervals + 1

\* the points appended for one step (lines 145-176); the path is not empty
StepPoints(step, total_distance, interval_distance) ==
    LET path == step.path
        d    == step.distance
    IN  IF LongerThanInterval(d, interval_distance)
        THEN LET n == NumIntervals(d, interval_distance)
             IN  [k \in 1..(n + 1) |->
                    LET point == path[PathIndex(k - 1, n, Len(path))]
                    IN  [lat |-> point.lat, lng |-> point.lng,
                         distance |-> [num |-> total_distance * n + d * (k - 1),
                                       den |-> n]]]
        ELSE LET end_point == path[Len(path)]
             IN  << [lat |-> end_point.lat, lng |-> end_point.lng,
                     distance |-> [num |-> total_distance + d, den |-> 1]] >>

\* Advance leaving total_distance as it was
Advance_none(total_distance, step_distance) == total_distance

\* total_distance += step_distance (line 178)
Advance(total_distance, step_distance) == total_distance + step_distance

\* path[0] and path[-1] raise IndexError on an empty path
StepRaises(step) == Len(step.path) = 0

\* the steps of one leg, from step si on (lines 137-178)
RECURSIVE SampleSteps(_, _, _, _)
SampleSteps(steps, si, acc, interval_distance) ==
    IF acc.raised \/ si > Len(steps) THEN acc
    ELSE IF StepRaises(steps[si])
    THEN [acc EXCEPT !.raised = TRUE]
    ELSE SampleSteps(steps, si + 1,
           [raised |-> FALSE,
            points |-> acc.points \o
                       StepPoints(steps[si], acc.total_distance, interval_distance),
            total_distance |-> Advance(acc.total_distance, steps[si].distance)],
           interval_distance)

\* the legs, from leg li on (lines 134-135)
RECURSIVE SampleLegs(_, _, _, _)
SampleLegs(legs, li, acc, interval_distance) ==
    IF acc.raised \/ li > Len(legs) THEN acc
    ELSE SampleLegs(legs, li + 1,
                    SampleSteps(legs[li].steps, 1, acc, interval_distance),
                    interval_distance)

calculate_route_points(directions_result, interval_distance) ==
    SampleLegs(directions_result.legs, 1,
               [raised |-> FALSE, points |-> <<>>, total_distance |-> 0],
               interval_distance)

(***************************************************************************)
(* The routes the directions provider can return.  The vertices of step s  *)
(* of leg l are pairwise different points.                                 *)
(***************************************************************************)
VertexOf(l, s, j) == [lat |-> 10 * l + s, lng |-> j]

StepShapes(maxPath, dists) == [len : 0..maxPath, distance : dists]

RECURSIVE SumTo(_, _)
SumTo(f, k) == IF k = 0 THEN 0 ELSE f[k] + SumTo(f, k - 1)

\* the ways to cut n steps into at most maxLegs legs (each of >= 1 step)
Splits(n, maxLegs) ==
    {c \in UNION {[1..nl -> 1..n] : nl \in 1..maxLegs} : SumTo(c, Len(c)) = n}

\* the route whose legs have split[1], split[2], ... of the steps of flat
RouteOf(flat, split) ==
    [legs |-> [l \in 1..Len(split) |->
        [steps |-> [s \in 1..split[l] |->
            LET sh == flat[SumTo(split, l - 1) + s]
            IN  [path |-> [j \in 1..sh.len |-> VertexOf(l, s, j)],
                 distance |-> sh.distance]]]]]

\* the routes of at most maxLegs legs and at most maxSteps steps in all
Routes(maxLegs, maxSteps, maxPath, dists) ==
    UNION {{RouteOf(flat, split) : flat \in [1..n -> StepShapes(maxPath, dists)],
                                   split \in Splits(n, maxLegs)}
           : n \in 1..maxSteps}

\* the steps of a route in travel order
RECURSIVE FlatSteps(_, _)
FlatSteps(legs, l) ==
    IF l = 0 THEN <<>> ELSE FlatSteps(legs, l - 1) \o legs[l].steps

(***************************************************************************)
(* State.  One entry per request for every local of get_route_weather.     *)
(***************************************************************************)
VARIABLES
    pc,                         \* position of the request in get_route_weather
    addresses,                  \* data.get('addresses', [])
    interval_distance,          \* data.get('interval_distance', 10)
    coordinates,                \* line 206
    route_points,               \* line 240
    point_idx,                  \* the point the loop of line 265 is at
    route_path,                 \* line 243
    last_zip,                   \* line 244
    route_with_weather,         \* line 299
    weather_service_available,  \* line 300
    response,                   \* what the request returned
    route_zips,                 \* history: current_zip of each entry the loop of line 265 kept, after origin_zip
    origin_result,              \* history: the postal code line 208 got for addresses[0]
    calls,                      \* history: external calls made, runs of one kind as one
    backend_log,                \* history: kinds of answers of the weather backend
    smp_pc, smp_route, smp_interval, smp_result   \* calculate_route_points alone

reqvars == <<pc, addresses, interval_distance, coordinates, route_points,
             point_idx, route_path, last_zip, route_with_weather,
             weather_service_available, response, route_zips, origin_result,
             calls, backend_log>>
smpvars == <<smp_pc, smp_route, smp_interval, smp_result>>
vars == <<reqvars, smpvars>>

NoResponse == [status |-> 0]
NoSample == [raised |-> FALSE, points |-> <<>>, total_distance |-> 0]

InitRequests ==
    /\ pc = [r \in Requests |-> "idle"]
    /\ addresses = [r \in Requests |-> <<>>]
    /\ interval_distance = [r \in Requests |-> 0]
    /\ coordinates = [r \in Requests |-> <<>>]
    /\ route_points = [r \in Requests |-> <<>>]
    /\ point_idx = [r \in Requests |-> 0]
    /\ route_path = [r \in Requests |-> <<>>]
    /\ last_zip = [r \in Requests |-> "None"]
    /\ route_with_weather = [r \in Requests |-> <<>>]
    /\ weather_service_available = [r \in Requests |-> TRUE]
    /\ response = [r \in Requests |-> NoResponse]
    /\ route_zips = [r \in Requests |-> <<>>]
    /\ origin_result = [r \in Requests |-> "None"]
    /\ calls = [r \in Requests |-> <<>>]
    /\ backend_log = [r \in Requests |-> {}]

InitSamplerOff ==
    /\ smp_pc = "off"
    /\ smp_route = [legs |-> <<>>]
    /\ smp_interval = MIN_INTERVAL
    /\ smp_result = NoSample

Init == InitRequests /\ InitSamplerOff

\* Called putting the call before the ones made earlier
Called_front(log, kind) ==
    IF log # <<>> /\ log[1] = kind THEN log ELSE <<kind>> \o log

\* a call of the given kind is added to the history
Called(log, kind) ==
    IF log # <<>> /\ log[Len(log)] = kind THEN log ELSE Append(log, kind)

(***************************************************************************)
(* request.get_json() (lines 190-193): a request with k addresses arrives. *)
(***************************************************************************)
Arrive(r, k, iv) ==
    /\ pc[r] = "idle"
    /\ addresses' = [addresses EXCEPT ![r] = SubSeq(AddressNames, 1, k)]
    /\ interval_distance' = [interval_distance EXCEPT ![r] = iv]
    /\ pc' = [pc EXCEPT ![r] = "validate"]
    /\ UNCHANGED <<coordinates, route_points, point_idx, route_path, last_zip,
                   route_with_weather, weather_service_available, response,
                   route_zips, calls, backend_log, origin_result, smpvars>>

\* Validation answering 500 where the code answers 400
Validation_raising(addrs, iv) ==
    IF Len(addrs) < MIN_ADDRESSES
    THEN [status |-> 500, error |-> <<"At least two addresses are required">>]
    ELSE IF iv < MIN_INTERVAL \/ iv > MAX_INTERVAL
    THEN [status |-> 500,
          error |-> <<"Interval distance must be between 1 and 100 miles">>]
    ELSE [status |-> 0]

(***************************************************************************)
(* Lines 195-203.  addresses[0] of line 195 raises IndexError on an empty  *)
(* list, which the handler of line 330 turns into a 500.                   *)
(***************************************************************************)
Validation(addrs, iv) ==
    IF Len(addrs) = 0
    THEN [status |-> 500, error |-> <<"list index out of range">>]
    ELSE IF Len(addrs) < MIN_ADDRESSES
    THEN [status |-> 400, error |-> <<"At least two addresses are required">>]
    ELSE IF iv < MIN_INTERVAL \/ iv > MAX_INTERVAL
    THEN [status |-> 400,
          error |-> <<"Interval distance must be between 1 and 100 miles">>]
    ELSE NoResponse

Validate(r) ==
    /\ pc[r] = "validate"
    /\ LET v == Validation(addresses[r], interval_distance[r])
       IN  IF v = NoResponse
           THEN /\ pc' = [pc EXCEPT ![r] = "geocode"]
                /\ UNCHANGED response
           ELSE /\ pc' = [pc EXCEPT ![r] = "done"]
                /\ response' = [response EXCEPT ![r] = v]
    /\ UNCHANGED <<addresses, interval_distance, coordinates, route_points,
                   point_idx, route_path, last_zip, route_with_weather,
                   weather_service_available, route_zips, calls, backend_log,
                   origin_result, smpvars>>

(***************************************************************************)
(* One iteration of the loop of lines 207-216.                             *)
(***************************************************************************)
Geocode(r, primary, secondary) ==
    /\ pc[r] = "geocode"
    /\ LET address == addresses[r][Len(coordinates[r]) + 1]
           g == get_coordinates_and_zip(address, primary, secondary)
       IN  /\ calls' = [calls EXCEPT ![r] = Called(@, "geocode")]
           /\ IF g.lat = NoneCoord \/ g.lon = NoneCoord
              THEN /\ response' = [response EXCEPT ![r] =
                                     [status |-> 400, error |-> g.result]]
                   /\ pc' = [pc EXCEPT ![r] = "done"]
                   /\ UNCHANGED <<coordinates, origin_result>>
              ELSE /\ coordinates' = [coordinates EXCEPT ![r] =
                         Append(@, [lat |-> g.lat, lon |-> g.lon,
                                    address |-> address])]
                   /\ origin_result' =
                         IF coordinates[r] = <<>>
                         THEN [origin_result EXCEPT ![r] = g.result]
                         ELSE origin_result
                   /\ pc' = [pc EXCEPT ![r] =
                         IF Len(coordinates[r]) + 1 = Len(addresses[r])
                         THEN "directions" ELSE "geocode"]
                   /\ UNCHANGED response
    /\ UNCHANGED <<addresses, interval_distance, route_points, point_idx,
                   route_path, last_zip, route_with_weather,
                   weather_service_available, route_zips, backend_log, smpvars>>

(***************************************************************************)
(* Lines 218-240: gmaps.directions and calculate_route_points.  An         *)
(* exception of either reaches the handler of line 326.                    *)
(***************************************************************************)
DirectionsAnswers(routes) ==
    {[kind |-> "exception"], [kind |-> "empty"]}
        \cup {[kind |-> "routes", route |-> rt] : rt \in routes}

Directions(r, answer) ==
    /\ pc[r] = "directions"
    /\ calls' = [calls EXCEPT ![r] = Called(@, "directions")]
    /\ IF answer.kind = "exception"
       THEN /\ response' = [response EXCEPT ![r] =
                   [status |-> 500, error |-> <<"Error calculating route: ", "directions">>]]
            /\ pc' = [pc EXCEPT ![r] = "done"]
            /\ UNCHANGED route_points
       ELSE IF answer.kind = "empty"
       THEN /\ response' = [response EXCEPT ![r] =
                   [status |-> 400, error |-> <<"Could not calculate route">>]]
            /\ pc' = [pc EXCEPT ![r] = "done"]
            /\ UNCHANGED route_points
       ELSE LET sp == calculate_route_points(answer.route, interval_distance[r])
            IN  IF sp.raised
                THEN /\ response' = [response EXCEPT ![r] =
                           [status |-> 500,
                            error |-> <<"Error calculating route: ", "list index out of range">>]]
                     /\ pc' = [pc EXCEPT ![r] = "done"]
                     /\ UNCHANGED route_points
                ELSE /\ Len(sp.points) <= MaxPoints
                     /\ route_points' = [route_points EXCEPT ![r] = sp.points]
                     /\ pc' = [pc EXCEPT ![r] = "origin"]
                     /\ UNCHANGED response
    /\ UNCHANGED <<addresses, interval_distance, coordinates, point_idx,
                   route_path, last_zip, route_with_weather,
                   weather_service_available, route_zips, backend_log,
                   origin_result, smpvars>>

(***************************************************************************)
(* Lines 243-262: the origin is looked up again and emitted.               *)
(***************************************************************************)
StopOf(coord) ==
    [lat |-> coord.lat, lon |-> coord.lon, address |-> coord.address,
     is_stop |-> TRUE]

Origin(r, primary, secondary) ==
    /\ pc[r] = "origin"
    /\ LET origin_zip == get_zip_code(primary, secondary)
       IN  /\ route_path' = [route_path EXCEPT ![r] = <<StopOf(coordinates[r][1])>>]
           /\ route_zips' = [route_zips EXCEPT ![r] = <<origin_zip>>]
           /\ last_zip' = [last_zip EXCEPT ![r] = origin_zip]
    /\ calls' = [calls EXCEPT ![r] = Called(@, "reverse_geocode")]
    /\ point_idx' = [point_idx EXCEPT ![r] = 1]
    /\ pc' = [pc EXCEPT ![r] = "points"]
    /\ UNCHANGED <<addresses, interval_distance, coordinates, route_points,
                   route_with_weather, weather_service_available, response,
                   backend_log, origin_result, smpvars>>

(***************************************************************************)
(* One iteration of the loop of lines 265-278.                             *)
(***************************************************************************)
\* Retained without the comparison with last_zip
Retained_any_zip(current_zip, last) == current_zip # "None"

\* Retained without the test that current_zip is not None
Retained_null_too(current_zip, last) == current_zip # last

\* line 269
Retained(current_zip, last) == current_zip # "None" /\ current_zip # last

\* RoutePointOf flagging the inserted point as a stop
RoutePointOf_stop(point) ==
    [lat |-> point.lat, lon |-> point.lng, address |-> "Route Point",
     is_stop |-> TRUE]

RoutePointOf(point) ==
    [lat |-> point.lat, lon |-> point.lng, address |-> "Route Point",
     is_stop |-> FALSE]

ProcessPoint(r, primary, secondary) ==
    /\ pc[r] = "points"
    /\ point_idx[r] <= Len(route_points[r])
    /\ LET point == route_points[r][point_idx[r]]
           current_zip == get_zip_code(primary, secondary)
       IN  IF Retained(current_zip, last_zip[r])
           THEN /\ route_path' = [route_path EXCEPT ![r] =
                                    Append(@, RoutePointOf(point))]
                /\ route_zips' = [route_zips EXCEPT ![r] = Append(@, current_zip)]
                /\ last_zip' = [last_zip EXCEPT ![r] = current_zip]
           ELSE UNCHANGED <<route_path, route_zips, last_zip>>
    /\ calls' = [calls EXCEPT ![r] = Called(@, "reverse_geocode")]
    /\ point_idx' = [point_idx EXCEPT ![r] = @ + 1]
    /\ UNCHANGED <<pc, addresses, interval_distance, coordinates, route_points,
                   route_with_weather, weather_service_available, response,
                   backend_log, origin_result, smpvars>>

(***************************************************************************)
(* Lines 280-291: the destination is looked up and emitted.                *)
(***************************************************************************)
\* DestinationPath deduplicating the destination against last_zip
DestinationPath_dedup(path, dest, final_zip, last) ==
    IF final_zip # "None" /\ final_zip = last
    THEN path
    ELSE Append(path, [lat |-> dest.lat, lon |-> dest.lon,
                       address |-> dest.address, is_stop |-> TRUE])

\* lines 283-288: appended whatever final_zip and last_zip are
DestinationPath(path, dest, final_zip, last) == Append(path, StopOf(dest))

Destination(r, primary, secondary) ==
    /\ pc[r] = "points"
    /\ point_idx[r] > Len(route_points[r])
    /\ LET final_zip == get_zip_code(primary, secondary)
           dest == coordinates[r][Len(coordinates[r])]
       IN  route_path' = [route_path EXCEPT ![r] =
                  DestinationPath(@, dest, final_zip, last_zip[r])]
    /\ calls' = [calls EXCEPT ![r] = Called(@, "reverse_geocode")]
    /\ pc' = [pc EXCEPT ![r] = "weather"]
    /\ UNCHANGED <<addresses, interval_distance, coordinates, route_points,
                   point_idx, last_zip, route_with_weather, route_zips,
                   weather_service_available, response, backend_log,
                   origin_result, smpvars>>

(***************************************************************************)
(* One iteration of the loop of lines 302-322.                             *)
(***************************************************************************)
\* Trips with the truth test of the snapshot inverted
Trips_inverted(weather) == weather = [none |-> TRUE]

\* TripBreaker on a flag all requests share
TripBreaker_shared(flags, r) == [q \in DOMAIN flags |-> FALSE]

\* line 305
Trips(weather) == weather # NoWeather /\ weather.temperatureC = "None"

\* line 306
TripBreaker(flags, r) == [flags EXCEPT ![r] = FALSE]

\* Synthesized giving no snapshot at all
Synthesized_missing(zip_code) == [none |-> TRUE]

\* lines 308-313
Synthesized(zip_code) ==
    [zip_code |-> zip_code, temperatureC |-> "None", temperatureF |-> "None",
     summary |-> SENTINEL]

\* lines 315-322
Annotated(point, weather) ==
    [lat |-> point.lat, lon |-> point.lon, address |-> point.address,
     is_stop |-> point.is_stop, weather |-> weather,
     zip_code |-> IF weather # NoWeather THEN weather.zip_code ELSE "None"]

Enrich(r, primary, secondary, answer) ==
    /\ pc[r] = "weather"
    /\ Len(route_with_weather[r]) < Len(route_path[r])
    /\ LET point == route_path[r][Len(route_with_weather[r]) + 1]
           zip_code == get_zip_code(primary, secondary)
           log == Called(calls[r], "reverse_geocode")
       IN  IF weather_service_available[r]
           THEN LET weather == get_weather_data(zip_code, answer)
                IN  /\ weather_service_available' =
                          IF Trips(weather)
                          THEN TripBreaker(weather_service_available, r)
                          ELSE weather_service_available
                    /\ route_with_weather' = [route_with_weather EXCEPT ![r] =
                                                Append(@, Annotated(point, weather))]
                    /\ calls' = [calls EXCEPT ![r] =
                          IF WeatherCalled(zip_code) THEN Called(log, "weather")
                          ELSE log]
                    /\ backend_log' = [backend_log EXCEPT ![r] =
                          IF WeatherCalled(zip_code) THEN @ \cup {answer.kind}
                          ELSE @]
           ELSE /\ route_with_weather' = [route_with_weather EXCEPT ![r] =
                      Append(@, Annotated(point, Synthesized(zip_code)))]
                /\ calls' = [calls EXCEPT ![r] = log]
                /\ UNCHANGED <<weather_service_available, backend_log>>
    /\ UNCHANGED <<pc, addresses, interval_distance, coordinates, route_points,
                   point_idx, route_path, last_zip, response, route_zips,
                   origin_result, smpvars>>

(***************************************************************************)
(* Line 324.                                                               *)
(***************************************************************************)
Return(r) ==
    /\ pc[r] = "weather"
    /\ Len(route_with_weather[r]) = Len(route_path[r])
    /\ response' = [response EXCEPT ![r] =
                      [status |-> 200, route |-> route_with_weather[r]]]
    /\ pc' = [pc EXCEPT ![r] = "done"]
    /\ UNCHANGED <<addresses, interval_distance, coordinates, route_points,
                   point_idx, route_path, last_zip, route_with_weather,
                   weather_service_available, route_zips, calls, backend_log,
                   origin_result, smpvars>>

(***************************************************************************)
(* calculate_route_points applied to a route on its own.                   *)
(***************************************************************************)
ValidIntervals == {iv \in Intervals : iv >= MIN_INTERVAL /\ iv <= MAX_INTERVAL}

InitSampler ==
    /\ InitRequests
    /\ smp_pc = "ready"
    /\ smp_route \in Routes(MaxLegs, MaxSteps, MaxPath, StepDistances)
    /\ smp_interval \in ValidIntervals
    /\ smp_result = NoSample

Sample ==
    /\ smp_pc = "ready"
    /\ smp_result' = calculate_route_points(smp_route, smp_interval)
    /\ smp_pc' = "done"
    /\ UNCHANGED <<reqvars, smp_route, smp_interval>>

(***************************************************************************)
(* Specifications.                                                         *)
(***************************************************************************)
\* A provider answers only when it is called: geolocator.reverse is called by
\* get_coordinates_and_zip when the primary result has no postal code (line
\* 52), by get_zip_code when the primary call returned without one (line 80),
\* and the weather backend when the breaker is closed and the postal code is
\* known (lines 303, 100).
NotCalled == "not_called"
NoAnswer == [kind |-> "not_called"]
BackupAnswers(primary, Sec) ==
    IF primary = "no_postal" THEN Sec ELSE {NotCalled}
ReverseAnswers(primary, Sec) ==
    IF primary \in {"no_postal", "no_result"} THEN Sec ELSE {NotCalled}
BackendAnswers(r, primary, secondary, Wea) ==
    IF weather_service_available[r] /\ WeatherCalled(get_zip_code(primary, secondary))
    THEN Wea ELSE {NoAnswer}

\* the steps of request r, the answers of the providers drawn from the sets given
Step(r, Counts, Ivs, Rts, Prim, Sec, Wea) ==
    \/ \E k \in Counts, iv \in Ivs : Arrive(r, k, iv)
    \/ Validate(r)
    \/ \E p \in Prim : \E s \in BackupAnswers(p, Sec) : Geocode(r, p, s)
    \/ \E a \in DirectionsAnswers(Rts) : Directions(r, a)
    \/ \E p \in Prim : \E s \in ReverseAnswers(p, Sec) : Origin(r, p, s)
    \/ \E p \in Prim : \E s \in ReverseAnswers(p, Sec) : ProcessPoint(r, p, s)
    \/ \E p \in Prim : \E s \in ReverseAnswers(p, Sec) : Destination(r, p, s)
    \/ \E p \in Prim : \E s \in ReverseAnswers(p, Sec) :
          \E a \in BackendAnswers(r, p, s, Wea) : Enrich(r, p, s, a)
    \/ Return(r)

\* one request, every answer of every provider
Next ==
    Step(1, 0..MaxAddresses, Intervals, Routes(1, MaxRouteSteps, 1, RouteDistances),
         PrimaryAnswers, SecondaryAnswers, WeatherAnswers)

Spec == Init /\ [][Next]_vars

\* two requests whose steps interleave, the providers answering from smaller sets
ConcWeatherAnswers ==
    {[kind |-> "ok", temperatureC |-> "t", temperatureF |-> "t"],
     [kind |-> "http_error"]}

NextConc ==
    \E r \in Requests :
        Step(r, {MIN_ADDRESSES}, {MIN_INTERVAL}, Routes(1, 1, 1, {1000}),
             {"Z1", "exception"}, {}, ConcWeatherAnswers)

SpecConc == Init /\ [][NextConc]_vars

\* one request for two addresses at the smallest interval, over routes of
\* several legs with steps longer than the interval; the reverse geocoder
\* answers with either postal code while the route is thinned
NextRoute ==
    \/ Arrive(1, MIN_ADDRESSES, MIN_INTERVAL)
    \/ Validate(1)
    \/ Geocode(1, "Z1", NotCalled)
    \/ \E a \in DirectionsAnswers(Routes(MaxLegs, MaxSteps, 2, LongRouteDistances)) :
          Directions(1, a)
    \/ \E p \in Zips : Origin(1, p, NotCalled)
    \/ \E p \in Zips : ProcessPoint(1, p, NotCalled)
    \/ Destination(1, "Z1", NotCalled)
    \/ \E a \in BackendAnswers(1, "Z1", NotCalled, ConcWeatherAnswers) :
          Enrich(1, "Z1", NotCalled, a)
    \/ Return(1)

SpecRoute == Init /\ [][NextRoute]_vars

\* calculate_route_points on every route within the bounds
NextSampler == Sample

SpecSampler == InitSampler /\ [][NextSampler]_vars

(***************************************************************************)
(* Properties.                                                             *)
(***************************************************************************)
\* the deduplicator of request r has built its RouteStop sequence
Deduplicated(r) ==
    \/ pc[r] = "weather"
    \/ pc[r] = "done" /\ response[r].status = 200

\* the request has ended
Ended(r) == pc[r] = "done"

IsError(r, status, text) ==
    /\ response[r].status = status
    /\ response[r].error[1] = text

\* C1: the RouteStop sequence the deduplicator builds has at least two
\* entries, begins with the origin (the first address, is_stop) and ends with
\* the destination (the last address, is_stop), whatever the sample points
\* and the reverse geocoder's answers are.
C1_OriginFirstDestinationLast ==
    \A r \in Requests :
        Deduplicated(r) =>
            LET path == route_path[r]
                n == Len(path)
            IN  /\ n >= 2
                /\ Len(addresses[r]) >= MIN_ADDRESSES
                /\ path[1].is_stop
                /\ path[1].address = addresses[r][1]
                /\ path[n].is_stop
                /\ path[n].address = addresses[r][Len(addresses[r])]

\* C1 witness: a route whose destination has the postal code of the sample
\* point retained last
C1_Witness ==
    \E r \in Requests :
        /\ Ended(r)
        /\ response[r].status = 200
        /\ Len(response[r].route) >= 3
        /\ last_zip[r] # "None"
        /\ response[r].route[Len(response[r].route)].zip_code = last_zip[r]

\* C2: no two consecutive inserted route points (is_stop = FALSE) of the
\* deduplicator's sequence have the same non-null postal code.
C2_NoEqualNeighbours ==
    \A r \in Requests :
        \A i \in 1..(Len(route_path[r]) - 1) :
            (~route_path[r][i].is_stop /\ ~route_path[r][i + 1].is_stop
                /\ route_zips[r][i] # "None")
            => route_zips[r][i] # route_zips[r][i + 1]

C2_Witness ==
    \E r \in Requests :
        \E i \in 1..(Len(route_path[r]) - 1) :
            ~route_path[r][i].is_stop /\ ~route_path[r][i + 1].is_stop

\* a snapshot whose temperature fields are null
Degraded(weather) ==
    /\ weather # NoWeather
    /\ weather.temperatureC = "None"
    /\ weather.temperatureF = "None"

\* C3: once a degraded snapshot has been attached to a RouteStop, every
\* snapshot attached to a later RouteStop of the request is degraded too.
C3_DegradedStays ==
    \A r \in Requests :
        \A i, j \in 1..Len(route_with_weather[r]) :
            (i < j /\ Degraded(route_with_weather[r][i].weather))
            => Degraded(route_with_weather[r][j].weather)

\* C3 witness: a degraded snapshot fetched from the backend, then a later one
C3_Witness ==
    \E r \in Requests :
        /\ Len(route_with_weather[r]) >= 3
        /\ route_with_weather[r][1].weather # NoWeather
        /\ ~Degraded(route_with_weather[r][1].weather)
        /\ Degraded(route_with_weather[r][2].weather)

\* C4: a request with fewer than 2 addresses (the empty list included) or an
\* interval outside [1, 100] ends with status 400 and made no external call.
C4_RejectedWith400 ==
    \A r \in Requests :
        (Ended(r) /\ (Len(addresses[r]) < MIN_ADDRESSES
                        \/ interval_distance[r] < MIN_INTERVAL
                        \/ interval_distance[r] > MAX_INTERVAL))
        => (response[r].status = 400 /\ calls[r] = <<>>)

\* C5: when the geocoder cannot resolve an address, the request ends at once
\* with a 400 whose message names that address, having called nothing but
\* the geocoder; and a request that has ended calls nothing more.
C5_UnresolvedAborts ==
    [][\A r \in Requests :
          /\ \A p \in {"no_result", "exception"} :
                Geocode(r, p, NotCalled) =>
                    /\ pc'[r] = "done"
                    /\ response'[r].status = 400
                    /\ response'[r].error[2] = addresses[r][Len(coordinates[r]) + 1]
                    /\ calls'[r] = <<"geocode">>
          /\ Ended(r) => (calls'[r] = calls[r] /\ response'[r] = response[r])
      ]_vars

\* C5 witness: the second address could not be resolved
C5_Witness ==
    \E r \in Requests :
        /\ Ended(r)
        /\ Len(coordinates[r]) = 1
        /\ response[r].status = 400
        /\ response[r].error[2] = addresses[r][2]

\* C6: when every answer of the weather backend is an HTTP error, a request
\* that returns its route has, for every RouteStop, a snapshot with null
\* temperatures and the sentinel summary.
C6_AllUnavailable ==
    \A r \in Requests :
        (Ended(r) /\ response[r].status = 200 /\ backend_log[r] \subseteq {"http_error"})
        => \A i \in 1..Len(response[r].route) :
              LET w == response[r].route[i].weather
              IN  Degraded(w) /\ w.summary = SENTINEL

\* C7: every entry of the returned route carries a snapshot.
C7_SnapshotEverywhere ==
    \A r \in Requests :
        (Ended(r) /\ response[r].status = 200) =>
            \A i \in 1..Len(response[r].route) :
                response[r].route[i].weather # NoWeather

\* C8 as claimed: once validation and geocoding have passed, the only abort
\* is RouteNotFound; any other failure is absorbed and the route is returned.
C8_OnlyThreeAborts ==
    \A r \in Requests :
        (Ended(r) /\ Len(addresses[r]) >= MIN_ADDRESSES
                  /\ Len(coordinates[r]) = Len(addresses[r]))
        => \/ response[r].status = 200
           \/ IsError(r, 400, "Could not calculate route")

ValidationTexts ==
    {"At least two addresses are required",
     "Interval distance must be between 1 and 100 miles"}
LocationTexts ==
    {"Could not find location for address: ", "Error finding location for address "}

\* C8 as amended: a 400 is a ValidationError, a LocationNotFound or a
\* RouteNotFound; a 500 is an exception raised outside the lookups (line 195
\* on an empty list, the directions provider, the sampler); a request that
\* has got its sample points ends with 200 whatever the reverse geocoder and
\* the weather backend answer.
C8_AbortsAmended ==
    \A r \in Requests :
        Ended(r) =>
            /\ response[r].status \in {200, 400, 500}
            /\ response[r].status = 400 =>
                  response[r].error[1] \in
                      ValidationTexts \cup LocationTexts \cup {"Could not calculate route"}
            /\ response[r].status = 500 =>
                  \/ Len(addresses[r]) = 0 /\ calls[r] = <<>>
                  \/ /\ response[r].error[1] = "Error calculating route: "
                     /\ calls[r] = <<"geocode", "directions">>
            /\ route_path[r] # <<>> => response[r].status = 200

\* C8 witness: the route came back although a postal lookup failed and the
\* weather backend answered with an error
C8_Witness ==
    \E r \in Requests :
        /\ Ended(r)
        /\ response[r].status = 200
        /\ "http_error" \in backend_log[r]
        /\ \E i \in 1..Len(route_zips[r]) : route_zips[r][i] = "None"

\* what changes whenever request r takes a step
Progress(r) ==
    <<pc[r], Len(coordinates[r]), point_idx[r], Len(route_with_weather[r])>>

\* the breaker of r is open exactly when r itself attached a snapshot whose
\* temperatureC is null
OwnTrip(r) ==
    \E i \in 1..Len(route_with_weather[r]) :
        Trips(route_with_weather[r][i].weather)

\* the postal code retained last by r itself (the origin's at first)
OwnLastZip(r) ==
    IF route_zips[r] = <<>> THEN "None" ELSE route_zips[r][Len(route_zips[r])]

\* C9: with requests interleaving, the breaker, last_zip and the route of a
\* request change only in that request's own steps, the breaker of a request
\* is open only after a trip of its own, and its last_zip is a postal code it
\* looked up itself.
C9_RequestsIsolated ==
    /\ [](\A r \in Requests :
            /\ weather_service_available[r] = ~OwnTrip(r)
            /\ last_zip[r] = OwnLastZip(r))
    /\ [][\A r \in Requests :
            Progress(r)' = Progress(r) =>
                /\ weather_service_available'[r] = weather_service_available[r]
                /\ last_zip'[r] = last_zip[r]
                /\ route_path'[r] = route_path[r]
                /\ route_with_weather'[r] = route_with_weather[r]
         ]_vars

\* C9 witness: the breaker of one request is open while another request,
\* which has retained a sample point, is still fetching real weather
C9_Witness ==
    \E r, q \in Requests :
        /\ r # q
        /\ ~weather_service_available[r]
        /\ weather_service_available[q]
        /\ pc[r] = "weather"
        /\ pc[q] = "weather"
        /\ Len(route_path[q]) = 3
        /\ Len(route_with_weather[q]) >= 1
        /\ route_with_weather[q][1].weather # NoWeather

(***************************************************************************)
(* C10, stated on the result of calculate_route_points.                    *)
(***************************************************************************)
\* the value of the rational a
RatEq(a, b) == a.num * b.den = b.num * a.den

\* the steps the sampler went through before it returned or raised
Processed(steps) ==
    IF \E k \in 1..Len(steps) : Len(steps[k].path) = 0
    THEN (CHOOSE k \in 1..Len(steps) :
            /\ Len(steps[k].path) = 0
            /\ \A j \in 1..(k - 1) : Len(steps[j].path) > 0) - 1
    ELSE Len(steps)

\* the least n with n * interval_m >= d, that is ceil(d / interval_m)
CeilOf(d, iv) ==
    CHOOSE n \in 1..(d + 1) :
        /\ n * iv * METERS_PER_MILE_X100 >= d * 100
        /\ (n - 1) * iv * METERS_PER_MILE_X100 < d * 100

\* the greatest q with q <= (i / n) * m, that is floor((i / n) * m)
FloorOf(i, n, m) ==
    CHOOSE q \in 0..m : q * n <= i * m /\ (q + 1) * n > i * m

\* the number of points the claim gives a step
PointsOf(step, iv) ==
    IF step.distance * 100 <= iv * METERS_PER_MILE_X100 THEN 1
    ELSE CeilOf(step.distance, iv) + 1

RECURSIVE PointsBefore(_, _, _)
PointsBefore(steps, k, iv) ==
    IF k = 1 THEN 0 ELSE PointsBefore(steps, k - 1, iv) + PointsOf(steps[k - 1], iv)

RECURSIVE DistanceBefore(_, _)
DistanceBefore(steps, k) ==
    IF k = 1 THEN 0 ELSE DistanceBefore(steps, k - 1) + steps[k - 1].distance

\* the points of step k are the ones the claim gives it
StepAsClaimed(steps, k, iv, points) ==
    LET step  == steps[k]
        d     == step.distance
        len   == Len(step.path)
        off   == PointsBefore(steps, k, iv)
        total == DistanceBefore(steps, k)
    IN  IF d * 100 <= iv * METERS_PER_MILE_X100
        THEN /\ points[off + 1].lat = step.path[len].lat
             /\ points[off + 1].lng = step.path[len].lng
             /\ RatEq(points[off + 1].distance, [num |-> total + d, den |-> 1])
        ELSE LET n == CeilOf(d, iv)
             IN  \A i \in 0..n :
                    LET pt == points[off + i + 1]
                        v  == step.path[FloorOf(i, n, len - 1) + 1]
                    IN  /\ pt.lat = v.lat
                        /\ pt.lng = v.lng
                        /\ RatEq(pt.distance, [num |-> total * n + d * i, den |-> n])
                        /\ i = 0 => v = step.path[1]
                        /\ i = n => v = step.path[len]

\* C10: every step the sampler processes yields one point at its last vertex
\* when d <= interval_m, and otherwise the n + 1 points i = 0..n, n =
\* ceil(d / interval_m), at vertex floor((i / n) * (len - 1)) and distance
\* total_distance + d * (i / n); total_distance grows by d; the steps are
\* taken leg by leg in the order given.
C10_StepSampling ==
    smp_pc = "done" =>
        LET steps == FlatSteps(smp_route.legs, Len(smp_route.legs))
            done  == Processed(steps)
        IN  /\ smp_result.raised = (done < Len(steps))
            /\ Len(smp_result.points) = PointsBefore(steps, done + 1, smp_interval)
            /\ smp_result.total_distance = DistanceBefore(steps, done + 1)
            /\ \A k \in 1..done :
                  StepAsClaimed(steps, k, smp_interval, smp_result.points)

\* C10 witness: a second leg whose step is longer than the interval and has
\* three vertices, sampled at four points after a first step
C10_Witness ==
    /\ smp_pc = "done"
    /\ ~smp_result.raised
    /\ Len(smp_route.legs) = 2
    /\ Len(smp_route.legs[2].steps[1].path) = 3
    /\ smp_route.legs[2].steps[1].distance = 4000
    /\ smp_interval = 1
    /\ Len(smp_result.points) = 5

(***************************************************************************)
(* C11, stated on the result of calculate_route_points.                    *)
(***************************************************************************)
\* a step whose decoded path has no vertex or one
Degenerate(step) == Len(step.path) <= 1

\* the number of points the claim gives the steps before step k: one for a
\* degenerate step, the points of C10 for the others
RECURSIVE ClaimedBefore(_, _, _)
ClaimedBefore(steps, k, iv) ==
    IF k = 1 THEN 0
    ELSE ClaimedBefore(steps, k - 1, iv)
         + (IF Degenerate(steps[k - 1]) THEN 1 ELSE PointsOf(steps[k - 1], iv))

\* C11: the sampler raises no error on any route, and a step whose path has
\* zero or one vertices contributes exactly one point whatever its distance
\* (a step with one vertex: at that vertex).
C11_DegenerateStepOnePoint ==
    smp_pc = "done" =>
        LET steps == FlatSteps(smp_route.legs, Len(smp_route.legs))
        IN  /\ ~smp_result.raised
            /\ Len(smp_result.points) =
                  ClaimedBefore(steps, Len(steps) + 1, smp_interval)
            /\ \A k \in 1..Len(steps) :
                  Len(steps[k].path) = 1 =>
                      LET pt == smp_result.points[ClaimedBefore(steps, k, smp_interval) + 1]
                      IN  pt.lat = steps[k].path[1].lat /\ pt.lng = steps[k].path[1].lng

(***************************************************************************)
(* C12.                                                                    *)
(***************************************************************************)
\* a <= b for rationals of positive denominator
RatLeq(a, b) == a.num * b.den <= b.num * a.den

\* the entries of a inserted so far, from the i-th on, are sample points of
\* b taken from the j-th on in the order of b
RECURSIVE TakenInOrder(_, _, _, _)
TakenInOrder(a, i, b, j) ==
    IF i > Len(a) THEN TRUE
    ELSE IF j > Len(b) THEN FALSE
    ELSE IF a[i] = RoutePointOf(b[j]) THEN TakenInOrder(a, i + 1, b, j + 1)
    ELSE TakenInOrder(a, i, b, j + 1)

\* the route points the deduplicator of r has inserted after the origin
Inserted(r) ==
    IF route_zips[r] = <<>> THEN <<>>
    ELSE SubSeq(route_path[r], 2, Len(route_zips[r]))

\* C12: the sample points of a request are in non-decreasing order of their
\* cumulative distance, over all steps and legs, and the route points the
\* deduplicator inserts between origin and destination are sample points
\* taken in that order (never re-sorted).
C12_DistanceMonotonic ==
    \A r \in Requests :
        /\ \A i \in 1..(Len(route_points[r]) - 1) :
              RatLeq(route_points[r][i].distance, route_points[r][i + 1].distance)
        /\ TakenInOrder(Inserted(r), 1, route_points[r], 1)

\* C12 witness: a step longer than the interval after another step, its
\* first point at the distance the step before ended at, and two of the
\* sample points inserted
C12_Witness ==
    \E r \in Requests :
        /\ Deduplicated(r)
        /\ Len(route_points[r]) = 4
        /\ RatEq(route_points[r][1].distance, route_points[r][2].distance)
        /\ ~RatEq(route_points[r][2].distance, route_points[r][3].distance)
        /\ Len(Inserted(r)) >= 2

(***************************************************************************)
(* C13.                                                                    *)
(***************************************************************************)
\* the postal-code changes the deduplicator of r has seen: the postal codes
\* it recorded that are not null and differ from the one recorded before
Changes(r) ==
    Cardinality({i \in 2..Len(route_zips[r]) :
                    /\ route_zips[r][i] # "None"
                    /\ route_zips[r][i] # route_zips[r][i - 1]})

\* C13: a sample point is retained (appended with is_stop = FALSE) exactly
\* when its postal code is not null and differs from last_zip, which then
\* becomes that postal code; a point that is dropped leaves route_path and
\* last_zip as they were; the deduplicator's sequence has 2 entries plus
\* one for each postal-code change.
C13_RetainedOnChange ==
    /\ [](\A r \in Requests :
            Deduplicated(r) => Len(route_path[r]) = 2 + Changes(r))
    /\ [][\A r \in Requests :
            \A p \in PrimaryAnswers :
                \A s \in ReverseAnswers(p, SecondaryAnswers) :
                    ProcessPoint(r, p, s) =>
                        LET current_zip == get_zip_code(p, s)
                            point == route_points[r][point_idx[r]]
                        IN  IF current_zip # "None" /\ current_zip # last_zip[r]
                            THEN /\ route_path'[r] =
                                       Append(route_path[r],
                                              [lat |-> point.lat, lon |-> point.lng,
                                               address |-> "Route Point",
                                               is_stop |-> FALSE])
                                 /\ last_zip'[r] = current_zip
                            ELSE /\ route_path'[r] = route_path[r]
                                 /\ last_zip'[r] = last_zip[r]
         ]_vars

\* C13 witness: of two sample points one changed the postal code and one
\* did not, and the sequence has three entries
C13_Witness ==
    \E r \in Requests :
        /\ Deduplicated(r)
        /\ Len(route_points[r]) = 2
        /\ Len(route_path[r]) = 3
        /\ route_zips[r][1] # "None"
        /\ Changes(r) = 1

(***************************************************************************)
(* C14.                                                                    *)
(***************************************************************************)
\* C14: in a step of the weather loop made with the breaker closed, the
\* breaker is opened exactly when the snapshot attached has both temperature
\* fields null (a snapshot with a temperature field that is not null leaves
\* it closed), and the snapshot is attached as the backend call returned it.
C14_TripsOnBothNull ==
    [][\A r \in Requests :
          (weather_service_available[r]
             /\ Len(route_with_weather'[r]) = Len(route_with_weather[r]) + 1)
          => LET weather ==
                    route_with_weather'[r][Len(route_with_weather'[r])].weather
             IN  weather_service_available'[r] = ~Degraded(weather)
      ]_vars

(***************************************************************************)
(* C15.                                                                    *)
(***************************************************************************)
\* C15: once the breaker of a request is open it stays open, the request
\* calls the weather backend no more, and every stop it goes on to annotate
\* gets the snapshot made up of the postal code looked up for it (null when
\* the lookup failed), null temperatures and the sentinel summary.
C15_OpenStaysOpen ==
    [][\A r \in Requests :
          ~weather_service_available[r] =>
              /\ ~weather_service_available'[r]
              /\ backend_log'[r] = backend_log[r]
              /\ calls'[r] # calls[r] => calls'[r][Len(calls'[r])] # "weather"
              /\ Len(route_with_weather'[r]) >= Len(route_with_weather[r])
              /\ \A i \in (Len(route_with_weather[r]) + 1)..Len(route_with_weather'[r]) :
                    LET weather == route_with_weather'[r][i].weather
                    IN  /\ weather # NoWeather
                        /\ weather.zip_code \in Zips \cup {"None"}
                        /\ weather.temperatureC = "None"
                        /\ weather.temperatureF = "None"
                        /\ weather.summary = SENTINEL
      ]_vars

\* C15 witness: two stops annotated after the breaker opened, the postal
\* lookup of one of them having failed
C15_Witness ==
    \E r \in Requests :
        /\ ~weather_service_available[r]
        /\ \E i \in 1..Len(route_with_weather[r]) :
              /\ i + 2 <= Len(route_with_weather[r])
              /\ Trips(route_with_weather[r][i].weather)
              /\ route_with_weather[r][i + 1].zip_code = "None"
              /\ route_with_weather[r][i + 2].zip_code # "None"

(***************************************************************************)
(* C16.                                                                    *)
(***************************************************************************)
\* the phase a call belongs to in the order claimed
Phase(kind) ==
    CASE kind = "geocode" -> 1
      [] kind = "directions" -> 2
      [] kind = "reverse_geocode" -> 3
      [] kind = "weather" -> 4

\* C16 as claimed: the calls of a request come in the phases geocode,
\* directions, reverse geocode, weather, in that order: no call of an
\* earlier phase follows a call of a later one (so no reverse-geocode call
\* follows a weather call), and directions is called only when every
\* address has been geocoded.
C16_PhasesOrdered ==
    \A r \in Requests :
        /\ \A i, j \in 1..Len(calls[r]) :
              i < j => Phase(calls[r][i]) < Phase(calls[r][j])
        /\ (\E i \in 1..Len(calls[r]) : calls[r][i] = "directions")
              => Len(coordinates[r]) = Len(addresses[r])

\* C16 as amended: the geocode calls come first, then the one directions
\* call, made when every address has been geocoded, then the reverse-geocode
\* calls of the deduplicator; in the weather loop every stop is reverse
\* geocoded again, and a weather call comes only there, right after the
\* reverse-geocode call of its stop, so that the two kinds alternate.
C16_PhasesAmended ==
    \A r \in Requests :
        \A i \in 1..Len(calls[r]) :
            LET kind == calls[r][i]
            IN  /\ kind = "geocode" => i = 1
                /\ kind = "directions" =>
                      i = 2 /\ Len(coordinates[r]) = Len(addresses[r])
                /\ kind = "reverse_geocode" => i >= 3
                /\ kind = "weather" =>
                      /\ i >= 4
                      /\ calls[r][i - 1] = "reverse_geocode"
                      /\ pc[r] \in {"weather", "done"}
                      /\ route_with_weather[r] # <<>>

\* C16 witness: a reverse-geocode call between two weather calls
C16_Witness ==
    \E r \in Requests :
        \E i \in 1..Len(calls[r]) :
            /\ i + 2 <= Len(calls[r])
            /\ calls[r][i] = "weather"
            /\ calls[r][i + 1] = "reverse_geocode"
            /\ calls[r][i + 2] = "weather"

(***************************************************************************)
(* C17, stated on the lookup of the origin's postal code (line 250), whose *)
(* result becomes last_zip.                                                *)
(***************************************************************************)
\* C17: get_zip_code returns a postal code or null to its caller, which goes
\* on, whatever the two providers do; the secondary provider is consulted
\* whenever the primary one did not yield a postal code (a result without
\* one, no result, an exception); the result is null only if neither
\* provider yields a postal code.
C17_FallbackWhenever ==
    [][\A r \in Requests :
          \A p \in PrimaryAnswers :
              \A s \in ReverseAnswers(p, SecondaryAnswers) :
                  Origin(r, p, s) =>
                      /\ pc'[r] = "points"
                      /\ last_zip'[r] \in Zips \cup {"None"}
                      /\ p \in Zips => last_zip'[r] = p
                      /\ p \notin Zips =>
                            /\ s # NotCalled
                            /\ last_zip'[r] = (IF s \in Zips THEN s ELSE "None")
      ]_vars

(***************************************************************************)
(* C18, stated on the resolution of one address (lines 207-216).           *)
(***************************************************************************)
\* the resolution of the address at hand failed: the request ended with 400
ResolutionFailed(r) ==
    /\ pc'[r] = "done"
    /\ response'[r].status = 400
    /\ coordinates'[r] = coordinates[r]

\* the address at hand was resolved to its coordinates
Resolved(r) ==
    /\ pc'[r] # "done"
    /\ response'[r] = NoResponse
    /\ Len(coordinates'[r]) = Len(coordinates[r]) + 1
    /\ LET c == coordinates'[r][Len(coordinates'[r])]
       IN  c.lat # NoneCoord /\ c.lon # NoneCoord

\* C18 as claimed: the resolution fails only when the primary provider
\* returns no result; when its result lacks a postal code the secondary
\* provider is asked, and the resolution succeeds whatever it answers.
C18_FailsOnlyOnNoResult ==
    [][\A r \in Requests :
          \A p \in PrimaryAnswers :
              \A s \in BackupAnswers(p, SecondaryAnswers) :
                  Geocode(r, p, s) =>
                      /\ ResolutionFailed(r) => p = "no_result"
                      /\ p = "no_postal" => (s # NotCalled /\ Resolved(r))
      ]_vars

\* C18 as amended: the resolution fails exactly when the primary provider
\* returns no result or raises; otherwise it succeeds with the coordinates;
\* when the primary result lacks a postal code the secondary provider is
\* asked, and the resolution succeeds whether it answers with a postcode,
\* with nothing or with an exception, the postal code being the primary's,
\* else the secondary's, else null.
C18_FailsOnPrimaryOnly ==
    [][\A r \in Requests :
          \A p \in PrimaryAnswers :
              \A s \in BackupAnswers(p, SecondaryAnswers) :
                  Geocode(r, p, s) =>
                      /\ ResolutionFailed(r) \/ Resolved(r)
                      /\ ResolutionFailed(r) <=> p \in {"no_result", "exception"}
                      /\ p = "no_postal" => (s # NotCalled /\ Resolved(r))
                      /\ p \in Zips => s = NotCalled
                      /\ (Resolved(r) /\ coordinates[r] = <<>>) =>
                            origin_result'[r] =
                                (IF p \in Zips THEN p
                                 ELSE IF s \in Zips THEN s ELSE "None")
      ]_vars

\* C18 witness: the first address was resolved to its coordinates without a
\* postal code (the secondary provider was asked and gave none), and the
\* request went on to the directions call
C18_Witness ==
    \E r \in Requests :
        /\ Len(coordinates[r]) = Len(addresses[r])
        /\ coordinates[r] # <<>>
        /\ origin_result[r] = "None"
        /\ calls[r] = <<"geocode", "directions">>

(***************************************************************************)
(* C19.                                                                    *)
(***************************************************************************)
\* C19: the deduplicator starts from the postal code the geocoder resolved
\* for the origin address (null if it resolved none) and looks nothing up
\* for the origin: when it turns to the first sample point no reverse-geocode
\* call has been made and last_zip is that postal code, so that the first
\* sample point is retained exactly when its postal code is not null and
\* differs from it.
C19_OriginZipFromGeocoder ==
    /\ [](\A r \in Requests :
            (pc[r] = "points" /\ point_idx[r] = 1) =>
                /\ last_zip[r] = origin_result[r]
                /\ calls[r] = <<"geocode", "directions">>)
    /\ [][\A r \in Requests :
            \A p \in PrimaryAnswers :
                \A s \in ReverseAnswers(p, SecondaryAnswers) :
                    (point_idx[r] = 1 /\ ProcessPoint(r, p, s)) =>
                        LET current_zip == get_zip_code(p, s)
                        IN  (Len(route_path'[r]) = 2)
                            <=> (current_zip # "None"
                                    /\ current_zip # origin_result[r])
         ]_vars

(***************************************************************************)
(* C20.                                                                    *)
(***************************************************************************)
\* C20: the route a request of k >= 2 addresses returns has exactly two
\* entries with is_stop, its first (the origin) and its last (the
\* destination); the addresses 2..k-1 appear in no entry; and the route has
\* one entry per entry of the deduplicator's sequence, in the same order,
\* with its lat, lon, address and is_stop.
C20_TwoStopsOnly ==
    \A r \in Requests :
        (Ended(r) /\ response[r].status = 200) =>
            LET route == response[r].route
                n == Len(route)
                k == Len(addresses[r])
            IN  /\ k >= MIN_ADDRESSES
                /\ n >= 2
                /\ {i \in 1..n : route[i].is_stop} = {1, n}
                /\ route[1].address = addresses[r][1]
                /\ route[n].address = addresses[r][k]
                /\ \A i \in 1..n : \A j \in 2..(k - 1) :
                      route[i].address # addresses[r][j]
                /\ n = Len(route_path[r])
                /\ \A i \in 1..n :
                      /\ route[i].lat = route_path[r][i].lat
                      /\ route[i].lon = route_path[r][i].lon
                      /\ route[i].address = route_path[r][i].address
                      /\ route[i].is_stop = route_path[r][i].is_stop

\* C20 witness: a route for three addresses with two inserted points
C20_Witness ==
    \E r \in Requests :
        /\ Ended(r)
        /\ response[r].status = 200
        /\ Len(addresses[r]) = 3
        /\ Len(response[r].route) = 4

====
